---- MODULE Spec2Model ----
(***************************************************************************)
(* ssh_attackpod_proxy: the attack ingestion path (handleProxyRequest,     *)
(* saveAttackToDB), the migration engine (runMigrations) and the SQLite    *)
(* datastore they work on, as a state machine.                             *)
(*                                                                         *)
(* Strings whose characters the program looks at (the evidence field) are  *)
(* sequences of one-character strings; all other strings are atomic.       *)
(* Tables are sequences of rows in rowid order.                            *)
(***************************************************************************)
EXTENDS Integers, Sequences, FiniteSets, TLC

\* ------------------------------------------------------------------ bounds
\* rows the legacy flat table holds when the program first starts
MaxOldRows == 2
\* requests the server accepts in one run of the model
MaxRequests == 2
\* process stops (kill, power loss) followed by a new start
MaxRestarts == 1

\* ------------------------------------------------------------ value universe
Procs == {"h1", "h2"}

\* SQL NULL in an integer column: what a scalar subquery yields when no row
\* matches. The ids of AUTOINCREMENT tables start at 1.
NULL == 0

\* Go's nil, and the fields of a handler that are not set yet
Nil == [nil |-> TRUE]

SourceIPs == {"1.2.3.4", "5.6.7.8"}
DestinationIP == "10.0.0.1"
UsernameRoot == "root"
Password123456 == "123456"
AttackTypeSSH == "ssh-bruteforce"

\* evidence strings: "S", " S" and "\fS" (form feed: white space for Go's
\* strings.TrimSpace, not in the character list of migration 5's TRIM)
EvS == <<"S">>
EvSpS == <<" ", "S">>
EvFfS == <<"\f", "S">>
Evidences == {EvS, EvSpS, EvFfS}

\* the six categorical columns, in the order of the _attacks table
CatCols == <<"source_ip", "destination_ip", "username", "password", "attack_type", "evidence">>
CatColSet == {CatCols[i] : i \in 1..Len(CatCols)}

\* ------------------------------------------------------------- string helpers
\* unicode.IsSpace for the characters of the model's alphabet
GoSpace == {" ", "\t", "\n", "\f", "\r"}
\* the character list of migration 5: ' ' || CHAR(9) || CHAR(10) || CHAR(13)
SqlTrimChars == {" ", "\t", "\n", "\r"}

RECURSIVE TrimLeft(_, _)
TrimLeft(s, cut) ==
    IF s # <<>> /\ Head(s) \in cut THEN TrimLeft(Tail(s), cut) ELSE s

RECURSIVE TrimRight(_, _)
TrimRight(s, cut) ==
    IF s # <<>> /\ s[Len(s)] \in cut THEN TrimRight(SubSeq(s, 1, Len(s) - 1), cut) ELSE s

\* strings.TrimSpace
TrimSpace(s) == TrimRight(TrimLeft(s, GoSpace), GoSpace)

\* SQLite TRIM(X, Y) with Y the character list of migration 5
SqlTrim(s) == TrimRight(TrimLeft(s, SqlTrimChars), SqlTrimChars)

\* --------------------------------------------------------------- the datastore
\* A row of the flat attacks table (schema versions 1 to 5).
FlatRow(id, ts, ip, ev) ==
    [id |-> id, attack_timestamp |-> ts, source_ip |-> ip,
     destination_ip |-> DestinationIP, username |-> UsernameRoot,
     password |-> Password123456, attack_type |-> AttackTypeSSH, evidence |-> ev]

\* the seven columns of idx_attacks_unique_attack (migration 2)
FlatKey(r) ==
    <<r.source_ip, r.destination_ip, r.username, r.password,
      r.attack_timestamp, r.evidence, r.attack_type>>

\* the seven columns of idx_attacks_unique (migration 6)
FactKey(r) ==
    <<r.timestamp, r.source_ip, r.destination_ip, r.username,
      r.password, r.attack_type, r.evidence>>

\* variant: an index that is not UNIQUE
UniqueIndexOKNotEnforced(keys) == TRUE

\* A UNIQUE index accepts the rows whose keys these are: no two rows have the
\* same key. (Keys holding a NULL would be distinct from all others; no release
\* stores a NULL, the columns being filled from Go strings and an int64, and
\* the NOT NULL columns of version 6 reject one.)
UniqueIndexOK(keys) ==
    \A i, j \in 1..Len(keys) : i # j => keys[i] # keys[j]

Keys(rows, K(_)) == [i \in 1..Len(rows) |-> K(rows[i])]

\* The empty datastore file: user_version 0 and no table.
\*   attacks   the flat table of versions 1..5 (renamed and dropped by migration 6)
\*   uniq      idx_attacks_unique_attack exists
\*   dict      the six _dict_* tables, seq their AUTOINCREMENT counters
\*   _attacks  the fact table, attacks_seq its AUTOINCREMENT counter
EmptyDB ==
    [user_version |-> 0, attacks |-> <<>>, uniq |-> FALSE,
     dict |-> [c \in CatColSet |-> <<>>], seq |-> [c \in CatColSet |-> 0],
     _attacks |-> <<>>, attacks_seq |-> 0]

\* the outcome of a statement or script: whether it failed, and the content
\* it leaves
Result(err, d) == [err |-> err, db |-> d]

\* (SELECT id FROM <dictionary table> WHERE value = ?): the id of the first row
\* holding the value, NULL when no row holds it.
LookupId(tbl, v) ==
    IF \E i \in 1..Len(tbl) : tbl[i].value = v
    THEN tbl[CHOOSE i \in 1..Len(tbl) :
                /\ tbl[i].value = v
                /\ \A j \in 1..Len(tbl) : tbl[j].value = v => i <= j].id
    ELSE NULL

\* SELECT DISTINCT <column>: each value once, in the order the scan of the
\* table first meets it.
RECURSIVE Distinct(_)
Distinct(vals) ==
    IF vals = <<>> THEN <<>>
    ELSE LET front == Distinct(SubSeq(vals, 1, Len(vals) - 1))
             last == vals[Len(vals)]
         IN IF \E i \in 1..Len(front) : front[i] = last THEN front
            ELSE Append(front, last)

\* INSERT INTO "_dict_x" ("value") ...: the rows a dictionary table holds after
\* the values are inserted; id is INTEGER PRIMARY KEY AUTOINCREMENT, so each
\* new row takes the next id above the table's counter `last`.
InsertDictValues(tbl, last, vals) ==
    tbl \o [k \in 1..Len(vals) |-> [id |-> last + k, value |-> vals[k]]]

\* the declared constraints of a dictionary table: id NOT NULL UNIQUE,
\* value TEXT NOT NULL UNIQUE
DictConstraintsOK(tbl) ==
    /\ \A i \in 1..Len(tbl) : tbl[i].id # NULL
    /\ UniqueIndexOK([i \in 1..Len(tbl) |-> <<tbl[i].id>>])
    /\ UniqueIndexOK([i \in 1..Len(tbl) |-> <<tbl[i].value>>])

\* variant: a dictionary table without the UNIQUE constraint, filled by a SELECT
\* without DISTINCT
PopulateDictEveryRow(vals) ==
    Result(FALSE, InsertDictValues(<<>>, 0, vals))

\* INSERT INTO "_dict_x" ("value") SELECT DISTINCT "x" FROM "attacks_old", on
\* the new, empty dictionary table with its constraints: vals are the values
\* of column x, in rowid order.
PopulateDict(vals) ==
    LET tbl == InsertDictValues(<<>>, 0, Distinct(vals))
    IN IF DictConstraintsOK(tbl) THEN Result(FALSE, tbl) ELSE Result(TRUE, <<>>)

\* the declared constraints of _attacks: every column NOT NULL, and
\* idx_attacks_unique over the seven columns
FactConstraintsOK(rows) ==
    /\ \A i \in 1..Len(rows) : \A c \in CatColSet : rows[i][c] # NULL
    /\ UniqueIndexOK(Keys(rows, FactKey))

\* ------------------------------------------------------------ the migrations
\* Version 1: CREATE TABLE IF NOT EXISTS attacks, its indexes and views.
\* A table an earlier release created is kept with its rows.
Migration1(d) == Result(FALSE, d)

\* Version 2: delete all rows but the one of lowest id of each group of equal
\* (source_ip, ..., attack_type), then create the unique index over them.
Migration2(d) ==
    LET rows == d.attacks
        kept == SelectSeq(rows, LAMBDA r :
                    \A i \in 1..Len(rows) :
                        FlatKey(rows[i]) = FlatKey(r) => r.id <= rows[i].id)
    IN IF UniqueIndexOK(Keys(kept, FlatKey))
       THEN Result(FALSE, [d EXCEPT !.attacks = kept, !.uniq = TRUE])
       ELSE Result(TRUE, d)

\* Versions 3 and 4: views only.
Migration3(d) == Result(FALSE, d)
Migration4(d) == Result(FALSE, d)

\* Version 5: UPDATE attacks SET evidence = TRIM(evidence, ...) WHERE evidence
\* IS NOT NULL, under the unique index of version 2.
Migration5(d) ==
    LET rows == [i \in 1..Len(d.attacks) |->
                    [d.attacks[i] EXCEPT !.evidence = SqlTrim(@)]]
    IN IF d.uniq => UniqueIndexOK(Keys(rows, FlatKey))
       THEN Result(FALSE, [d EXCEPT !.attacks = rows])
       ELSE Result(TRUE, d)

\* variant: a rewrite that stores the position of the old row in place of
\* the dictionary ids (foreign keys are not enforced)
PopulateAttacksByRow(old, dict) ==
    [i \in 1..Len(old) |->
        [id |-> i, timestamp |-> old[i].attack_timestamp,
         source_ip |-> i, destination_ip |-> i, username |-> i, password |-> i,
         attack_type |-> i, evidence |-> i]]

\* variant: a rewrite that stores the timestamp in seconds
PopulateAttacksSeconds(old, dict) ==
    [i \in 1..Len(old) |->
        [id |-> i,
         timestamp |-> old[i].attack_timestamp \div 1000,
         source_ip |-> LookupId(dict["source_ip"], old[i].source_ip),
         destination_ip |-> LookupId(dict["destination_ip"], old[i].destination_ip),
         username |-> LookupId(dict["username"], old[i].username),
         password |-> LookupId(dict["password"], old[i].password),
         attack_type |-> LookupId(dict["attack_type"], old[i].attack_type),
         evidence |-> LookupId(dict["evidence"], old[i].evidence)]]

\* INSERT INTO "_attacks" (...) SELECT "attack_timestamp", (SELECT "id" FROM
\* "_dict_source_ips" WHERE "value" = "source_ip"), ... FROM "attacks_old": one
\* row per old row, in rowid order, with the ids 1, 2, ... of the new table.
PopulateAttacks(old, dict) ==
    [i \in 1..Len(old) |->
        [id |-> i,
         timestamp |-> old[i].attack_timestamp,
         source_ip |-> LookupId(dict["source_ip"], old[i].source_ip),
         destination_ip |-> LookupId(dict["destination_ip"], old[i].destination_ip),
         username |-> LookupId(dict["username"], old[i].username),
         password |-> LookupId(dict["password"], old[i].password),
         attack_type |-> LookupId(dict["attack_type"], old[i].attack_type),
         evidence |-> LookupId(dict["evidence"], old[i].evidence)]]

\* Version 6: the flat table becomes attacks_old; the dictionary tables and
\* _attacks are created; rows with a NULL categorical column are deleted (there
\* are none, see UniqueIndexOK); the dictionaries are filled with the distinct
\* values and _attacks with one row per old row; attacks_old is dropped and
\* attacks becomes a view.
Migration6(d) ==
    LET old == d.attacks
        filled == [c \in CatColSet |-> PopulateDict([i \in 1..Len(old) |-> old[i][c]])]
        dict == [c \in CatColSet |-> filled[c].db]
        facts == PopulateAttacks(old, dict)
    IN IF (\A c \in CatColSet : ~filled[c].err) /\ FactConstraintsOK(facts)
       THEN Result(FALSE, [d EXCEPT !.attacks = <<>>, !.uniq = FALSE,
                                    !.dict = dict,
                                    !.seq = [c \in CatColSet |-> Len(dict[c])],
                                    !._attacks = facts,
                                    !.attacks_seq = Len(facts)])
       ELSE Result(TRUE, d)

\* var migrations = []Migration{...}
migrations == <<[Version |-> 1], [Version |-> 2], [Version |-> 3],
                [Version |-> 4], [Version |-> 5], [Version |-> 6]>>

\* tx.Exec(migration.SQL) for the migration of that version
ExecMigration(version, d) ==
    CASE version = 1 -> Migration1(d)
      [] version = 2 -> Migration2(d)
      [] version = 3 -> Migration3(d)
      [] version = 4 -> Migration4(d)
      [] version = 5 -> Migration5(d)
      [] version = 6 -> Migration6(d)

\* The attacks view of version 6: _attacks joined to the six dictionaries.
AttacksView(d) ==
    LET joined(r) ==
            \A c \in CatColSet : \E i \in 1..Len(d.dict[c]) : d.dict[c][i].id = r[c]
        val(c, r) == d.dict[c][CHOOSE i \in 1..Len(d.dict[c]) : d.dict[c][i].id = r[c]].value
        rows == SelectSeq(d._attacks, joined)
    IN [i \in 1..Len(rows) |->
            [id |-> rows[i].id, timestamp |-> rows[i].timestamp,
             source_ip |-> val("source_ip", rows[i]),
             destination_ip |-> val("destination_ip", rows[i]),
             username |-> val("username", rows[i]),
             password |-> val("password", rows[i]),
             attack_type |-> val("attack_type", rows[i]),
             evidence |-> val("evidence", rows[i])]]

\* variant: a VACUUM that renumbers the rows of the dictionary tables, as it
\* may for a table without an INTEGER PRIMARY KEY
VacuumRenumbering(d) ==
    [d EXCEPT !.dict = [c \in CatColSet |->
        [i \in 1..Len(d.dict[c]) |-> [d.dict[c][i] EXCEPT !.id = @ + 1]]]]

\* VACUUM rebuilds the file; tables with an INTEGER PRIMARY KEY keep their ids
\* and every table keeps its rows.
Vacuum(d) == d

\* ------------------------------------------- runMigrations: its statements
\* variant: the version is taken from the new process's memory, where it is 0
ReadUserVersionFromMemory(d) == 0

\* db.QueryRow("PRAGMA user_version;").Scan(&currentVersion): the version the
\* file stores
ReadUserVersion(d) == d.user_version

\* variant: a migration is run unless its version is the current one
PendingNotEqual(current, version) == current # version

\* variant: every migration of the list is run on every start
PendingAlways(current, version) == TRUE

\* if currentVersion < migration.Version
Pending(current, version) == current < version

\* db.Begin(): the transaction starts from the stored content
Begin(d) == d

\* variant: the statement always writes the version of the last migration
SetUserVersionLatest(d, version) ==
    [d EXCEPT !.user_version = migrations[Len(migrations)].Version]

\* PRAGMA user_version = <version>, on the content the transaction sees
SetUserVersion(d, version) == [d EXCEPT !.user_version = version]

\* variant: a commit that stores the version and not the script's changes
CommitVersionOnly(d, image) == [d EXCEPT !.user_version = image.user_version]

\* tx.Commit(): the content the transaction sees (image) becomes the stored
\* content (d before it)
Commit(d, image) == image

\* variant: a rollback that leaves the changes made so far in the file
RollbackKeepsChanges(d, image) == image

\* tx.Rollback(), and a transaction the process leaves open when it stops: the
\* stored content stays what it was
Rollback(d, image) == d

\* ------------------------------------------------------- the attack payload
\* The body of a request is a record:
\*   json       "ok", "malformed" (not JSON) or "badtype" (a field of the wrong
\*              JSON type)
\*   ts         the attack_timestamp string: its layout, the wall-clock
\*              milliseconds it spells and, for RFC 3339, its zone offset
\*   source_ip, evidence, test_mode   the fields that vary in the model
NoBody == [json |-> "empty"]

\* the zone of the server (time.Local), as milliseconds east of UTC
Local == [offset |-> 1000]

TsRFC3339 == [layout |-> "rfc3339", wall |-> 1000, offset |-> 0]
TsNaive == [layout |-> "naive", wall |-> 2000, offset |-> 0]
TsGarbage == [layout |-> "garbage", wall |-> 0, offset |-> 0]
\* the JSON value null in place of the string
TsNull == [layout |-> "null", wall |-> 0, offset |-> 0]

\* The zero time.Time (January 1, year 1, 00:00 UTC) in Unix milliseconds:
\* -62135596800000, written here in units of 10^6 ms to fit the checker's
\* integers; it stands for itself only (no arithmetic is done on it).
ZeroTimeUnixMilli == -62135596

AttackBody(ip, ev, ts, test) ==
    [json |-> "ok", source_ip |-> ip, evidence |-> ev, ts |-> ts, test_mode |-> test]

\* variant: null is handed to the two layouts like any other text, and
\* matches neither
UnmarshalTimeParsesNull(ts) ==
    IF ts.layout = "rfc3339" THEN [err |-> FALSE, ms |-> ts.wall - ts.offset]
    ELSE IF ts.layout = "naive" THEN [err |-> FALSE, ms |-> ts.wall - Local.offset]
    ELSE [err |-> TRUE, ms |-> 0]

\* FlexibleTime.UnmarshalJSON: null returns nil before any layout is tried and
\* leaves the zero time; otherwise RFC 3339 first, then the layout without
\* zone, read in the server's zone; the result is the instant in Unix
\* milliseconds.
UnmarshalTime(ts) ==
    IF ts.layout = "null" THEN [err |-> FALSE, ms |-> ZeroTimeUnixMilli]
    ELSE IF ts.layout = "rfc3339" THEN [err |-> FALSE, ms |-> ts.wall - ts.offset]
    ELSE IF ts.layout = "naive" THEN [err |-> FALSE, ms |-> ts.wall - Local.offset]
    ELSE [err |-> TRUE, ms |-> 0]

\* json.Unmarshal(body, &attack)
Unmarshal(body) ==
    IF body.json # "ok" THEN [err |-> TRUE, attack |-> Nil]
    ELSE LET t == UnmarshalTime(body.ts)
         IN IF t.err THEN [err |-> TRUE, attack |-> Nil]
            ELSE [err |-> FALSE,
                  attack |-> [SourceIP |-> body.source_ip,
                              DestinationIP |-> DestinationIP,
                              Username |-> UsernameRoot,
                              Password |-> Password123456,
                              AttackTimestamp |-> t.ms,
                              Evidence |-> body.evidence,
                              AttackType |-> AttackTypeSSH,
                              TestMode |-> body.test_mode]]

\* ------------------------------------------------------------ saveAttackToDB
\* if attack == nil || attack.TestMode { return nil }
SkipSave(attack) == attack = Nil \/ attack.TestMode

\* The words that join the seven comparisons of checkQuery's WHERE clause, as
\* the statement text spells them.
checkQueryConnectives == <<"ANS", "AND", "AND", "AND", "AND", "AND">>

\* SQLite prepares a statement only if its text is in the grammar: comparisons
\* are joined by AND or OR.
Prepares(connectives) ==
    \A i \in 1..Len(connectives) : connectives[i] \in {"AND", "OR"}

\* the values bound to the seven parameters of checkQuery, by column
CheckArgs(attack) ==
    [timestamp |-> attack.AttackTimestamp, source_ip |-> attack.SourceIP,
     destination_ip |-> attack.DestinationIP, username |-> attack.Username,
     password |-> attack.Password, attack_type |-> attack.AttackType,
     evidence |-> attack.Evidence]

\* the values bound to the seven parameters of insertQuery, by column
InsertArgs(attack) ==
    [timestamp |-> attack.AttackTimestamp, source_ip |-> attack.SourceIP,
     destination_ip |-> attack.DestinationIP, username |-> attack.Username,
     password |-> attack.Password, attack_type |-> attack.AttackType,
     evidence |-> TrimSpace(attack.Evidence)]

\* the _attacks row the seven values resolve to: each categorical value by the
\* scalar subquery on its dictionary
Resolve(d, args, id) ==
    [id |-> id, timestamp |-> args.timestamp,
     source_ip |-> LookupId(d.dict["source_ip"], args.source_ip),
     destination_ip |-> LookupId(d.dict["destination_ip"], args.destination_ip),
     username |-> LookupId(d.dict["username"], args.username),
     password |-> LookupId(d.dict["password"], args.password),
     attack_type |-> LookupId(d.dict["attack_type"], args.attack_type),
     evidence |-> LookupId(d.dict["evidence"], args.evidence)]

\* tx.QueryRow(checkQuery, ...).Scan(&count): an error when the statement does
\* not prepare, else the number of rows equal to the resolved values (a
\* comparison with NULL matches no row).
checkQuery(d, attack) ==
    LET want == Resolve(d, CheckArgs(attack), 0)
        hits == {i \in 1..Len(d._attacks) :
                    /\ \A c \in CatColSet : want[c] # NULL
                    /\ FactKey(d._attacks[i]) = FactKey(want)}
    IN IF Prepares(checkQueryConnectives)
       THEN [err |-> FALSE, count |-> Cardinality(hits)]
       ELSE [err |-> TRUE, count |-> 0]

\* tx.Exec(insertQuery, ...): one row appended to _attacks, unless a constraint
\* of the table rejects it.
insertQuery(d, attack) ==
    LET row == Resolve(d, InsertArgs(attack), d.attacks_seq + 1)
        rows == Append(d._attacks, row)
    IN IF FactConstraintsOK(rows)
       THEN Result(FALSE, [d EXCEPT !._attacks = rows, !.attacks_seq = @ + 1])
       ELSE Result(TRUE, d)

\* variant: INSERT OR REPLACE without a duplicate check: a stored row with the
\* key of the attack is deleted and the attack inserted as a new row
saveAttackTxInsertOrReplace(d, attack, fault) ==
    LET row == Resolve(d, InsertArgs(attack), d.attacks_seq + 1)
        kept == SelectSeq(d._attacks, LAMBDA r : FactKey(r) # FactKey(row))
        rows == Append(kept, row)
    IN IF fault # "none" \/ ~FactConstraintsOK(rows) THEN [err |-> "insert", db |-> d]
       ELSE [err |-> "nil", db |-> [d EXCEPT !._attacks = rows, !.attacks_seq = @ + 1]]

\* variant: the values of the attack are entered into the dictionaries before
\* the duplicate check, and a failing call does not take them back
saveAttackTxKeepsDictionary(d, attack, fault) ==
    LET args == InsertArgs(attack)
        missing(c) == LookupId(d.dict[c], args[c]) = NULL
        d2 == [d EXCEPT
                 !.dict = [c \in CatColSet |->
                             IF missing(c)
                             THEN InsertDictValues(d.dict[c], d.seq[c], <<args[c]>>)
                             ELSE d.dict[c]],
                 !.seq = [c \in CatColSet |-> IF missing(c) THEN d.seq[c] + 1 ELSE d.seq[c]]]
        chk == checkQuery(d2, attack)
    IN IF chk.err \/ fault = "check" THEN [err |-> "check", db |-> d2]
       ELSE [err |-> "duplicate", db |-> d2]

\* saveAttackToDB from the duplicate check to the commit, in the transaction
\* opened on d. fault names the statement the storage engine fails ("none":
\* no failure). The result is the error returned and the datastore left.
saveAttackTx(d, attack, fault) ==
    LET chk == checkQuery(d, attack)
        ins == insertQuery(d, attack)
    IN IF chk.err \/ fault = "check" THEN [err |-> "check", db |-> d]
       ELSE IF chk.count > 0 THEN [err |-> "duplicate", db |-> d]
       ELSE IF ins.err \/ fault = "insert" THEN [err |-> "insert", db |-> d]
       ELSE IF fault = "commit" THEN [err |-> "commit", db |-> d]
       ELSE [err |-> "nil", db |-> ins.db]

\* variant: the release that stores every decoded attack, test-mode ones too,
\* creating the dictionary entries the attack needs
saveAttackToDBStoresAll(d, attack, fault) ==
    LET args == InsertArgs(attack)
        missing(c) == LookupId(d.dict[c], args[c]) = NULL
        d2 == [d EXCEPT
                 !.dict = [c \in CatColSet |->
                             IF missing(c)
                             THEN InsertDictValues(d.dict[c], d.seq[c], <<args[c]>>)
                             ELSE d.dict[c]],
                 !.seq = [c \in CatColSet |-> IF missing(c) THEN d.seq[c] + 1 ELSE d.seq[c]]]
        ins == insertQuery(d2, attack)
    IN IF ins.err THEN [err |-> "insert", db |-> d] ELSE [err |-> "nil", db |-> ins.db]

\* saveAttackToDB as a whole, run without interleaving on datastore d.
saveAttackToDB(d, attack, fault) ==
    IF SkipSave(attack) THEN [err |-> "nil", db |-> d]
    ELSE IF fault = "begin" THEN [err |-> "begin", db |-> d]
    ELSE saveAttackTx(d, attack, fault)

StorageErrors == {"begin", "check", "insert", "commit"}

\* -------------------------------------------------------- handleProxyRequest
\* r.Header: the names of the header fields of a request. The sensors' HTTP
\* library sends User-Agent and Accept-Encoding with every request.
Header == {"Content-Type", "User-Agent", "Accept-Encoding"}

\* the header of a request from a client that names neither
BareHeader == {"Content-Type"}

RequestWith(method, path, header, body) ==
    [method |-> method, path |-> path, header |-> header, body |-> body]

Request(method, path, body) == RequestWith(method, path, Header, body)

EndpointCheckIP == "/check_ip"
EndpointAddAttack == "/add_attack"

\* the requests sensors send in the model
Requests ==
    {Request("POST", EndpointAddAttack, AttackBody("1.2.3.4", EvS, TsRFC3339, FALSE)),
     Request("POST", EndpointAddAttack, AttackBody("1.2.3.4", EvS, TsRFC3339, TRUE)),
     Request("POST", EndpointAddAttack, AttackBody("1.2.3.4", EvSpS, TsNaive, FALSE)),
     Request("POST", EndpointAddAttack, AttackBody("1.2.3.4", EvS, TsGarbage, FALSE)),
     Request("POST", EndpointAddAttack, AttackBody("1.2.3.4", EvS, TsNull, FALSE)),
     Request("POST", EndpointAddAttack, [json |-> "malformed"]),
     Request("GET", EndpointAddAttack, AttackBody("1.2.3.4", EvS, TsRFC3339, FALSE)),
     Request("POST", "/Add_Attack", AttackBody("1.2.3.4", EvS, TsRFC3339, FALSE)),
     RequestWith("GET", EndpointCheckIP, BareHeader, NoBody)}

\* The body of a response: its bytes are the text as it is, or the text
\* compressed with gzip.
Plain(text) == [enc |-> "identity", data |-> text]
Gzip(text) == [enc |-> "gzip", data |-> text]

\* the header fields of the upstream's responses
UpstreamHeader == {"Content-Type", "Content-Length", "Date"}

\* What the upstream does with a forwarded request: the connection fails, or
\* it answers 200 with a gzip-encoded body (the request on the wire accepts
\* gzip), or 503 with a plain body, or with a status line whose three-digit
\* code is below 100, which the client accepts (it rejects only codes that
\* are not three digits). The upstream of the model sends no redirect.
UpstreamBehaviours ==
    {[kind |-> "error"],
     [kind |-> "response", status |-> 200,
      header |-> UpstreamHeader \cup {"Content-Encoding"}, body |-> Gzip("ok")],
     [kind |-> "response", status |-> 503, header |-> UpstreamHeader, body |-> Plain("busy")],
     [kind |-> "response", status |-> 99, header |-> UpstreamHeader, body |-> Plain("odd")]}

\* http.Error(w, text, status)
HttpError(status, text) ==
    [status |-> status, header |-> {"Content-Type", "X-Content-Type-Options"},
     body |-> Plain(text)]

\* the mockup response of suppressed-submission mode
MockupResponse ==
    [status |-> 200, header |-> {"Content-Length", "Server", "Date", "Content-Type"},
     body |-> Plain("{\"status\":\"success\"}")]

\* variant: only submissions (POST /add_attack) are answered with the mockup
ReturnMockupForSubmissions(c, r) ==
    c.DoNotSubmitAttacks /\ r.method = "POST" /\ r.path = EndpointAddAttack

\* if appConfig.DoNotSubmitAttacks && r.URL.Path == string(EndpointAddAttack)
ReturnMockup(c, r) == c.DoNotSubmitAttacks /\ r.path = EndpointAddAttack

\* The header http.Transport writes for a request: it adds User-Agent
\* (Go-http-client) and Accept-Encoding: gzip where the request has none.
TransportHeader(hdr) == hdr \cup {"User-Agent", "Accept-Encoding"}

\* client.Do(proxyReq) with &http.Client{Timeout: ...}: the request on the
\* wire and the response handed to the caller. The transport decodes a gzip
\* body it asked for itself, dropping Content-Encoding and Content-Length
\* from the header.
clientDo(req, up) ==
    LET wire == [req EXCEPT !.header = TransportHeader(@)]
    IN IF up.kind = "error" THEN [err |-> TRUE, wire |-> wire, resp |-> Nil]
       ELSE IF "Accept-Encoding" \notin req.header /\ up.body.enc = "gzip"
       THEN [err |-> FALSE, wire |-> wire,
             resp |-> [status |-> up.status,
                       header |-> up.header \ {"Content-Encoding", "Content-Length"},
                       body |-> Plain(up.body.data)]]
       ELSE [err |-> FALSE, wire |-> wire,
             resp |-> [status |-> up.status, header |-> up.header, body |-> up.body]]

\* what the sensor gets when the handler ends without writing a status: the
\* server closes the connection
NoResponse == [status |-> 0, header |-> {}, body |-> Plain("")]

\* the response copied to the sensor: every header field, the status, the
\* body. w.WriteHeader panics on a code outside 100..999; the server recovers
\* the panic of the handler and nothing is written.
CopyResponse(resp) ==
    IF resp.status \in 100..999
    THEN [status |-> resp.status, header |-> resp.header, body |-> resp.body]
    ELSE NoResponse

\* variant: a failure to forward is answered 500 like the proxy's own errors
ForwardFailedInternalError(rec, res, up) ==
    [rec EXCEPT !.pc = "done", !.sent = res.wire, !.up = up,
                !.reply = HttpError(500, "Internal Server Error")]

\* client.Do returned an error: http.Error(w, "Bad Gateway", 502) and the
\* handler returns
ForwardFailed(rec, res, up) ==
    [rec EXCEPT !.pc = "done", !.sent = res.wire, !.up = up,
                !.reply = HttpError(502, "Bad Gateway")]

\* variant: the path alone decides, compared without regard to case
IsSubmissionAnyMethod(r) == r.path \in {EndpointAddAttack, "/Add_Attack"}

\* if r.Method == http.MethodPost && r.URL.Path == string(EndpointAddAttack)
IsSubmission(r) == r.method = "POST" /\ r.path = EndpointAddAttack

\* variant: a payload that does not decode is answered 400 Bad Request
interceptStatusDecodeError(decoded, err) == IF decoded = "error" THEN 400 ELSE 0

\* variant: a storage failure is answered 500 Internal Server Error
interceptStatusStorageError(decoded, err) == IF err \in StorageErrors THEN 500 ELSE 0

\* The status the interception block of handleProxyRequest writes to the
\* sensor, 0 for none: every branch of it only logs.
interceptStatus(decoded, err) == 0

\* variant: the forwarded request reads r.Body again, which io.ReadAll has
\* already drained
proxyBodyConsumed(body) == NoBody

\* the body of the forwarded request: bytes.NewBuffer(body), the bytes read
\* from the inbound request
proxyBody(body) == body

\* http.NewRequestWithContext(...) with proxyReq.Header = r.Header.Clone()
ProxyRequest(r) ==
    [method |-> r.method, path |-> r.path, header |-> r.header, body |-> proxyBody(r.body)]

\* ------------------------------------------------------------------ the state
VARIABLES
    db,             \* the datastore file
    cfg,            \* appConfig: [DoNotSubmitAttacks]
    phase,          \* "boot", "migrate", "vacuum", "ready", "serve", "fatal"
    currentVersion, \* runMigrations: currentVersion
    mi,             \* runMigrations: index of the loop over migrations
    migrated,       \* runMigrations: migrated
    mpc,            \* runMigrations: position in the round of the loop:
                    \* "loop", "exec", "pragma", "commit"
    mtx,            \* runMigrations: the datastore as the open transaction
                    \* sees it, Nil when none is open
    applied,        \* history: how often each migration has been committed
    stoppedInTx,    \* history, kept until the server runs: the process
                    \* last stopped with a migration's transaction open
    vacuums,        \* history, kept until the server runs: the VACUUM
                    \* statements this run has executed
    restarts,       \* process stops so far
    h,              \* the request handlers (goroutines)
    dbMutex,        \* the handler holding dbMutex, or "free"
    tx,             \* the handler whose transaction is open, or "none"
    handled,        \* requests accepted so far
    saveLog         \* history: the saveAttackToDB calls that returned without
                    \* a storage failure being injected, in order of return

vars == <<db, cfg, phase, currentVersion, mi, migrated, mpc, mtx, applied, stoppedInTx,
          vacuums, restarts, h, dbMutex, tx, handled, saveLog>>

IdleHandler ==
    [pc |-> "idle", req |-> Nil, readErr |-> FALSE, decoded |-> "none", attack |-> Nil,
     err |-> "none", sent |-> Nil, up |-> Nil, reply |-> Nil]

\* the flat rows an earlier release may have stored
LegacyAttacks ==
    {[attack_timestamp |-> 1000, source_ip |-> "1.2.3.4", evidence |-> ev] : ev \in Evidences}

\* The tables of up to MaxOldRows such rows, duplicates included. Rows that
\* differ in the evidence only are taken in one order of insertion (shorter
\* evidence first, untrimmed last), the migrations treating all orders alike.
LegacyTables ==
    LET rank(a) == IF a.evidence = EvS THEN 1 ELSE IF a.evidence = EvSpS THEN 2 ELSE 3
    IN UNION {{t \in [1..n -> LegacyAttacks] :
                  \A i \in 1..(n - 1) : rank(t[i]) <= rank(t[i + 1])} : n \in 0..MaxOldRows}

\* The datastore is a new file or the file of an earlier release, which holds
\* the flat table with whatever the sensors submitted.
Init ==
    /\ \E t \in LegacyTables :
          db = [EmptyDB EXCEPT !.attacks =
                    [i \in 1..Len(t) |->
                        FlatRow(i, t[i].attack_timestamp, t[i].source_ip, t[i].evidence)]]
    /\ cfg \in [DoNotSubmitAttacks : BOOLEAN]
    /\ phase = "boot"
    /\ currentVersion = 0
    /\ mi = 1
    /\ migrated = FALSE
    /\ mpc = "loop"
    /\ mtx = Nil
    /\ applied = [i \in 1..Len(migrations) |-> 0]
    /\ stoppedInTx = FALSE
    /\ vacuums = 0
    /\ restarts = 0
    /\ h = [p \in Procs |-> IdleHandler]
    /\ dbMutex = "free"
    /\ tx = "none"
    /\ handled = 0
    /\ saveLog = <<>>

serverVars == <<h, dbMutex, tx, handled, saveLog>>
migrationVars == <<currentVersion, mi, migrated, mpc, mtx, applied, stoppedInTx, vacuums>>

\* ---------------------------------------------------------------- runMigrations
\* db.QueryRow("PRAGMA user_version;").Scan(&currentVersion)
ReadVersion ==
    /\ phase = "boot"
    /\ \E ok \in BOOLEAN :
          IF ok
          THEN /\ currentVersion' = ReadUserVersion(db)
               /\ phase' = "migrate"
          ELSE /\ currentVersion' = 0
               /\ phase' = "fatal"
    /\ mi' = 1
    /\ migrated' = FALSE
    /\ UNCHANGED <<db, cfg, mpc, mtx, applied, stoppedInTx, vacuums, restarts, serverVars>>

\* A round of the loop for a migration above currentVersion begins: db.Begin().
\* Its failure ends runMigrations with an error.
MigrateBegin ==
    /\ phase = "migrate"
    /\ mpc = "loop"
    /\ mi <= Len(migrations)
    /\ Pending(currentVersion, migrations[mi].Version)
    /\ \E ok \in BOOLEAN :
          IF ok
          THEN /\ mtx' = Begin(db)
               /\ mpc' = "exec"
               /\ UNCHANGED phase
          ELSE /\ phase' = "fatal"
               /\ UNCHANGED <<mtx, mpc>>
    /\ UNCHANGED <<db, cfg, currentVersion, mi, migrated, applied, stoppedInTx, vacuums,
                   restarts, serverVars>>

\* tx.Exec(migration.SQL): the script runs in the transaction; if the engine
\* fails (fault) or the script fails on the stored rows, tx.Rollback() and
\* runMigrations returns the error.
MigrateExec ==
    /\ phase = "migrate"
    /\ mpc = "exec"
    /\ \E fault \in BOOLEAN :
          LET res == ExecMigration(migrations[mi].Version, mtx)
          IN IF ~fault /\ ~res.err
             THEN /\ mtx' = res.db
                  /\ mpc' = "pragma"
                  /\ UNCHANGED <<db, phase>>
             ELSE /\ db' = Rollback(db, res.db)
                  /\ mtx' = Nil
                  /\ mpc' = "loop"
                  /\ phase' = "fatal"
    /\ UNCHANGED <<cfg, currentVersion, mi, migrated, applied, stoppedInTx, vacuums,
                   restarts, serverVars>>

\* tx.Exec("PRAGMA user_version = <version>;"), in the same transaction; on
\* failure tx.Rollback() and runMigrations returns the error.
MigratePragma ==
    /\ phase = "migrate"
    /\ mpc = "pragma"
    /\ \E ok \in BOOLEAN :
          IF ok
          THEN /\ mtx' = SetUserVersion(mtx, migrations[mi].Version)
               /\ mpc' = "commit"
               /\ UNCHANGED <<db, phase>>
          ELSE /\ db' = Rollback(db, mtx)
               /\ mtx' = Nil
               /\ mpc' = "loop"
               /\ phase' = "fatal"
    /\ UNCHANGED <<cfg, currentVersion, mi, migrated, applied, stoppedInTx, vacuums,
                   restarts, serverVars>>

\* tx.Commit(): the script's changes and the version become the stored
\* content, and the loop goes on with currentVersion = migration.Version and
\* migrated = true. A commit that fails stores nothing and runMigrations
\* returns the error.
MigrateCommit ==
    /\ phase = "migrate"
    /\ mpc = "commit"
    /\ \E ok \in BOOLEAN :
          IF ok
          THEN /\ db' = Commit(db, mtx)
               /\ currentVersion' = migrations[mi].Version
               /\ migrated' = TRUE
               /\ applied' = [applied EXCEPT ![mi] = @ + 1]
               /\ mi' = mi + 1
               /\ UNCHANGED phase
          ELSE /\ db' = Rollback(db, mtx)
               /\ phase' = "fatal"
               /\ UNCHANGED <<currentVersion, migrated, applied, mi>>
    /\ mtx' = Nil
    /\ mpc' = "loop"
    /\ UNCHANGED <<cfg, stoppedInTx, vacuums, restarts, serverVars>>

\* One round of the loop for a migration not above currentVersion.
MigrateSkip ==
    /\ phase = "migrate"
    /\ mpc = "loop"
    /\ mi <= Len(migrations)
    /\ ~Pending(currentVersion, migrations[mi].Version)
    /\ mi' = mi + 1
    /\ UNCHANGED <<db, cfg, phase, currentVersion, migrated, mpc, mtx, applied, stoppedInTx,
                   vacuums, restarts, serverVars>>

\* variant: the file is compacted at every start
RunsVacuumAlways(m) == TRUE

\* if migrated { ... db.Exec("VACUUM;") ... }
RunsVacuum(m) == m

\* After the loop: VACUUM if a migration ran (its failure is only logged), then
\* runMigrations returns nil and main starts the server.
MigrationsDone ==
    /\ phase = "migrate"
    /\ mpc = "loop"
    /\ mi > Len(migrations)
    /\ IF RunsVacuum(migrated)
       THEN phase' = "vacuum"
       ELSE phase' = "ready"
    /\ UNCHANGED <<db, cfg, currentVersion, mi, migrated, mpc, mtx, applied, stoppedInTx,
                   vacuums, restarts, serverVars>>

RunVacuum ==
    /\ phase = "vacuum"
    /\ \E ok \in BOOLEAN : db' = IF ok THEN Vacuum(db) ELSE db
    /\ vacuums' = vacuums + 1
    /\ phase' = "ready"
    /\ UNCHANGED <<cfg, currentVersion, mi, migrated, mpc, mtx, applied, stoppedInTx, restarts,
                   serverVars>>

\* initDB has returned: main registers the handler and calls
\* http.ListenAndServe, which serves until the process stops or, if it cannot
\* listen, returns an error that ends the process. What runMigrations kept in
\* its local variables is gone when the server runs.
ListenAndServe ==
    /\ phase = "ready"
    /\ \E ok \in BOOLEAN :
          IF ok
          THEN /\ phase' = "serve"
               /\ migrated' = FALSE
               /\ stoppedInTx' = FALSE
               /\ vacuums' = 0
          ELSE /\ phase' = "fatal"
               /\ UNCHANGED <<migrated, stoppedInTx, vacuums>>
    /\ UNCHANGED <<db, cfg, currentVersion, mi, mpc, mtx, applied, restarts, serverVars>>

\* The process stops (log.Fatalf, a kill, a power loss) and is started again
\* on the same file. An open transaction is not committed: the file holds
\* what the last commit left.
Restart ==
    /\ restarts < MaxRestarts
    /\ restarts' = restarts + 1
    /\ phase' = "boot"
    /\ h' = [p \in Procs |-> IdleHandler]
    /\ dbMutex' = "free"
    /\ tx' = "none"
    /\ currentVersion' = 0
    /\ mi' = 1
    /\ migrated' = FALSE
    /\ mpc' = "loop"
    /\ mtx' = Nil
    /\ stoppedInTx' = (mtx # Nil)
    /\ vacuums' = 0
    /\ UNCHANGED <<db, cfg, applied, handled, saveLog>>

\* ------------------------------------------------------------ request handling
\* the number of rows of the attacks view that show the attack
RowsFor(d, attack) ==
    LET view == AttacksView(d)
    IN Cardinality({i \in 1..Len(view) :
            /\ view[i].timestamp = attack.AttackTimestamp
            /\ view[i].source_ip = attack.SourceIP
            /\ view[i].destination_ip = attack.DestinationIP
            /\ view[i].username = attack.Username
            /\ view[i].password = attack.Password
            /\ view[i].attack_type = attack.AttackType
            /\ view[i].evidence = TrimSpace(attack.Evidence)})

\* A returned saveAttackToDB call, for the history: the attack, the error
\* returned and, of the moment the transaction ran, whether the attack was
\* stored, whether one of its values was in no dictionary yet, and whether
\* another handler was waiting to save the same attack.
LogEntry(d, attack, err, racing) ==
    [attack |-> attack, err |-> err, stored |-> RowsFor(d, attack) > 0,
     newValue |-> \E c \in CatColSet : LookupId(d.dict[c], InsertArgs(attack)[c]) = NULL,
     racing |-> racing]

\* The handler after the interception block: it goes on to forward, unless the
\* block wrote a status.
AfterIntercept(rec) ==
    LET status == interceptStatus(rec.decoded, rec.err)
    IN IF status = 0 THEN [rec EXCEPT !.pc = "forward"]
       ELSE [rec EXCEPT !.pc = "done", !.reply = HttpError(status, "interceptor")]

\* variant: the listener is started before initDB has returned
AcceptingDuringMigrations(ph) == ph \in {"migrate", "serve"}

\* http.ListenAndServe is called after initDB has returned: connections are
\* accepted in the serving phase only
Accepting(ph) == ph = "serve"

\* A request arrives: io.ReadAll(r.Body), then for POST /add_attack the body
\* is decoded. The handler answers 500 if the body cannot be read.
Receive(p) ==
    /\ Accepting(phase)
    /\ h[p].pc = "idle"
    /\ handled < MaxRequests
    /\ handled' = handled + 1
    /\ \E r \in Requests, readOK \in BOOLEAN :
          LET rec == [IdleHandler EXCEPT !.req = r]
              dec == Unmarshal(r.body)
          IN h' = [h EXCEPT ![p] =
                IF ~readOK
                THEN [rec EXCEPT !.pc = "done", !.readErr = TRUE,
                                 !.reply = HttpError(500, "Internal Server Error")]
                ELSE IF ~IsSubmission(r) THEN AfterIntercept(rec)
                ELSE IF dec.err THEN AfterIntercept([rec EXCEPT !.decoded = "error"])
                ELSE [rec EXCEPT !.pc = "save", !.decoded = "ok", !.attack = dec.attack]]
    /\ UNCHANGED <<db, cfg, phase, migrationVars, restarts, dbMutex, tx, saveLog>>

\* saveAttackToDB on an attack it skips: the call returns at once.
SaveSkip(p) ==
    /\ phase = "serve"
    /\ h[p].pc = "save"
    /\ SkipSave(h[p].attack)
    /\ LET res == saveAttackToDB(db, h[p].attack, "none")
       IN /\ db' = res.db
          /\ h' = [h EXCEPT ![p] = AfterIntercept([@ EXCEPT !.err = res.err])]
    /\ UNCHANGED <<cfg, phase, migrationVars, restarts, dbMutex, tx, handled, saveLog>>

\* variant: a lock that does not exclude
LockableAlways(mutex) == TRUE

\* dbMutex.Lock() returns only when no goroutine holds the mutex
Lockable(mutex) == mutex = "free"

\* variant: an Unlock that is not deferred and that a return path misses
UnlockMissed(mutex) == mutex

\* defer dbMutex.Unlock(): runs when saveAttackToDB returns, on every path
Unlock(mutex) == "free"

\* dbMutex.Lock()
SaveLock(p) ==
    /\ phase = "serve"
    /\ h[p].pc = "save"
    /\ ~SkipSave(h[p].attack)
    /\ Lockable(dbMutex)
    /\ dbMutex' = p
    /\ h' = [h EXCEPT ![p].pc = "begin"]
    /\ UNCHANGED <<db, cfg, phase, migrationVars, restarts, tx, handled, saveLog>>

\* db.Begin(); on failure the call returns and the deferred Unlock runs.
SaveBegin(p) ==
    /\ phase = "serve"
    /\ h[p].pc = "begin"
    /\ \E ok \in BOOLEAN :
          IF ok
          THEN /\ tx' = p
               /\ h' = [h EXCEPT ![p].pc = "tx"]
               /\ UNCHANGED dbMutex
          ELSE /\ h' = [h EXCEPT ![p] = AfterIntercept([@ EXCEPT !.err = "begin"])]
               /\ dbMutex' = Unlock(dbMutex)
               /\ UNCHANGED tx
    /\ UNCHANGED <<db, cfg, phase, migrationVars, restarts, handled, saveLog>>

\* The duplicate check, the insert and the commit or rollback; the call
\* returns and the deferred Unlock runs.
SaveTx(p) ==
    /\ phase = "serve"
    /\ h[p].pc = "tx"
    /\ \E fault \in {"none", "check", "insert", "commit"} :
          LET res == saveAttackTx(db, h[p].attack, fault)
          IN /\ db' = res.db
             /\ h' = [h EXCEPT ![p] = AfterIntercept([@ EXCEPT !.err = res.err])]
             /\ saveLog' = IF fault = "none"
                           THEN Append(saveLog, LogEntry(db, h[p].attack, res.err,
                                    \E q \in Procs \ {p} :
                                        /\ h[q].pc = "save"
                                        /\ h[q].attack = h[p].attack))
                           ELSE saveLog
    /\ tx' = "none"
    /\ dbMutex' = Unlock(dbMutex)
    /\ UNCHANGED <<cfg, phase, migrationVars, restarts, handled>>

\* The request is forwarded with client.Do, or answered with the mockup
\* response, and the response is copied to the sensor; 502 if forwarding fails.
Forward(p) ==
    /\ phase = "serve"
    /\ h[p].pc = "forward"
    /\ \E up \in UpstreamBehaviours :
          LET res == clientDo(ProxyRequest(h[p].req), up)
          IN h' = [h EXCEPT ![p] =
                IF ReturnMockup(cfg, h[p].req)
                THEN [@ EXCEPT !.pc = "done", !.reply = MockupResponse]
                ELSE IF res.err
                THEN ForwardFailed(@, res, up)
                ELSE [@ EXCEPT !.pc = "done", !.sent = res.wire, !.up = up,
                               !.reply = CopyResponse(res.resp)]]
    /\ UNCHANGED <<db, cfg, phase, migrationVars, restarts, dbMutex, tx, handled, saveLog>>

\* The handler returns; the goroutine serves the next request.
Finish(p) ==
    /\ phase = "serve"
    /\ h[p].pc = "done"
    /\ h' = [h EXCEPT ![p] = IdleHandler]
    /\ UNCHANGED <<db, cfg, phase, migrationVars, restarts, dbMutex, tx, handled, saveLog>>

Next ==
    \/ ReadVersion
    \/ MigrateBegin
    \/ MigrateExec
    \/ MigratePragma
    \/ MigrateCommit
    \/ MigrateSkip
    \/ MigrationsDone
    \/ RunVacuum
    \/ ListenAndServe
    \/ Restart
    \/ \E p \in Procs : Receive(p)
    \/ \E p \in Procs : SaveSkip(p)
    \/ \E p \in Procs : SaveLock(p)
    \/ \E p \in Procs : SaveBegin(p)
    \/ \E p \in Procs : SaveTx(p)
    \/ \E p \in Procs : Forward(p)
    \/ \E p \in Procs : Finish(p)

Spec == Init /\ [][Next]_vars

\* The Go scheduler runs every goroutine that can run, and a goroutine waiting
\* in dbMutex.Lock() gets the mutex once it stays free: a handler inside
\* saveAttackToDB takes its next step.
FairSpec ==
    /\ Spec
    /\ \A p \in Procs :
          /\ WF_vars(SaveSkip(p))
          /\ WF_vars(SaveLock(p))
          /\ WF_vars(SaveBegin(p))
          /\ WF_vars(SaveTx(p))

\* ==================================================================== claims
\* the schema is at the version of the last migration
MigrationsComplete == db.user_version = migrations[Len(migrations)].Version

\* the entries of the history that are about one attack, in order of return
CallsOn(attack) == SelectSeq(saveLog, LAMBDA e : e.attack = attack)

LoggedAttacks == {saveLog[i].attack : i \in 1..Len(saveLog)}

\* C1: an attack that is not stored yet and is submitted N >= 1 times (no
\* storage failure injected) has exactly one fact row; its first call ended
\* as inserted (nil) and every later call as duplicate.
C1_IdempotentIngestion ==
    \A a \in LoggedAttacks :
        LET calls == CallsOn(a)
        IN ~calls[1].stored =>
              /\ RowsFor(db, a) = 1
              /\ calls[1].err = "nil"
              /\ \A i \in 2..Len(calls) : calls[i].err = "duplicate"

\* C2: when two or more handlers submit the same attack concurrently (one
\* waits for the lock while the other is in its transaction), exactly one of
\* the calls ends as inserted, every other one as duplicate, and exactly one
\* fact row is stored.
C2_ExactlyOnceUnderConcurrency ==
    \A a \in LoggedAttacks :
        LET calls == CallsOn(a)
        IN (/\ Len(calls) >= 2
            /\ \E i \in 1..Len(calls) : calls[i].racing
            /\ ~calls[1].stored) =>
              /\ Cardinality({i \in 1..Len(calls) : calls[i].err = "nil"}) = 1
              /\ \A i \in 1..Len(calls) : calls[i].err \in {"nil", "duplicate"}
              /\ RowsFor(db, a) = 1

\* C3: once the migrations are complete, no two rows of _attacks agree on
\* (timestamp, source_ip, destination_ip, username, password, attack_type,
\* evidence).
C3_FactRowsUnique ==
    MigrationsComplete =>
        \A i, j \in 1..Len(db._attacks) :
            i # j => FactKey(db._attacks[i]) # FactKey(db._attacks[j])

C3_Witness ==
    /\ MigrationsComplete
    /\ Len(db._attacks) >= 2
    /\ \E p \in Procs : h[p].pc = "done" /\ h[p].err \in StorageErrors

\* C4: a saveAttackToDB call (no storage failure injected) on an attack one of
\* whose categorical values is in no dictionary yet ends as inserted, and
\* afterwards every value of the attack has a dictionary entry and the attack
\* has a fact row.
C4_NewValueIsInserted ==
    \A i \in 1..Len(saveLog) :
        saveLog[i].newValue =>
            /\ saveLog[i].err = "nil"
            /\ \A c \in CatColSet :
                  LookupId(db.dict[c], InsertArgs(saveLog[i].attack)[c]) # NULL
            /\ RowsFor(db, saveLog[i].attack) >= 1

\* C5: in every state no dictionary table holds two entries with the same
\* value, and no two entries of one table share an id.
C5_DictionaryUnique ==
    \A c \in CatColSet :
        \A i, j \in 1..Len(db.dict[c]) :
            i # j => /\ db.dict[c][i].value # db.dict[c][j].value
                     /\ db.dict[c][i].id # db.dict[c][j].id

C5_Witness ==
    /\ \E c \in CatColSet : Len(db.dict[c]) >= 2
    /\ \E p, q \in Procs : h[p].pc = "tx" /\ h[q].pc = "save" /\ ~SkipSave(h[q].attack)

\* C6: once a dictionary entry (id, value) exists, every step keeps that entry,
\* and every entry of the table that carries its value or its id is that entry:
\* the value goes on resolving to the same id and the id to the same value.
C6_DictionaryStable ==
    [][\A c \in CatColSet :
          \A i \in 1..Len(db.dict[c]) :
              LET e == db.dict[c][i]
                  tbl == db'.dict[c]
              IN /\ \E j \in 1..Len(tbl) : tbl[j] = e
                 /\ \A j \in 1..Len(tbl) :
                        (tbl[j].id = e.id \/ tbl[j].value = e.value) => tbl[j] = e]_vars

C6_Witness ==
    /\ \E c \in CatColSet : Len(db.dict[c]) >= 2
    /\ restarts >= 1
    /\ \E p \in Procs : h[p].pc = "done" /\ h[p].err \in StorageErrors

\* C7: a step of a handler whose decoded payload has test_mode = true leaves
\* the datastore as it is.
C7_TestModeNeverPersisted ==
    [][\A p \in Procs :
          (/\ h'[p] # h[p]
           /\ h[p].attack # Nil
           /\ h[p].attack.TestMode) => db' = db]_vars

C7_Witness ==
    \E p \in Procs :
        /\ h[p].pc = "done"
        /\ h[p].attack # Nil
        /\ h[p].attack.TestMode
        /\ h[p].err = "nil"

\* what the sensor is sent and what the upstream is sent for a request, given
\* whether its body could be read and what the upstream does: no term of it
\* is the interceptor's outcome
Transparent(rec) ==
    IF rec.readErr
    THEN rec.sent = Nil /\ rec.reply = HttpError(500, "Internal Server Error")
    ELSE IF cfg.DoNotSubmitAttacks /\ rec.req.path = EndpointAddAttack
    THEN rec.sent = Nil /\ rec.reply = MockupResponse
    ELSE /\ rec.sent = [method |-> rec.req.method, path |-> rec.req.path,
                        header |-> TransportHeader(rec.req.header),
                        body |-> rec.req.body]
         /\ rec.up # Nil
         /\ rec.reply = IF rec.up.kind = "error" THEN HttpError(502, "Bad Gateway")
                        ELSE CopyResponse(clientDo(rec.req, rec.up).resp)

\* C8: the request forwarded and the response returned are fixed by the
\* inbound request and the upstream's behaviour alone, whatever the
\* interceptor's outcome.
C8_InterceptorTransparent ==
    \A p \in Procs : h[p].pc = "done" => Transparent(h[p])

\* two handlers with the same request and the same upstream behaviour, whose
\* saves ended differently, and the same forwarded request and response
C8_Witness ==
    \E p, q \in Procs :
        /\ h[p].pc = "done" /\ h[q].pc = "done"
        /\ h[p].req = h[q].req /\ h[p].up = h[q].up
        /\ h[p].up # Nil /\ h[p].up.kind = "response"
        /\ h[p].err = "begin" /\ h[q].err = "check"
        /\ h[p].sent = h[q].sent /\ h[p].reply = h[q].reply

\* C9: a step in which the body of a POST /add_attack fails to decode leaves
\* the datastore unchanged, and the handler goes on to forward the request
\* with its original body (or to answer with the mockup response).
C9_DecodeErrorStillForwarded ==
    [][\A p \in Procs :
          (h'[p] # h[p] /\ h'[p].decoded = "error") =>
              /\ db' = db
              /\ h'[p].pc \in {"forward", "done"}
              /\ h'[p].pc = "done" =>
                    \/ (cfg.DoNotSubmitAttacks /\ h'[p].reply = MockupResponse)
                    \/ (h'[p].sent # Nil /\ h'[p].sent.body = h'[p].req.body)]_vars

C9_Witness ==
    \E p \in Procs :
        /\ h[p].pc = "done"
        /\ h[p].decoded = "error"
        /\ h[p].sent # Nil
        /\ h[p].sent.body = h[p].req.body
        /\ h[p].reply.status = 200

\* C10: a request whose saveAttackToDB call ended with a storage error is
\* answered with the copy of the upstream's response (502 if forwarding
\* failed, the mockup response in suppressed mode), never with an error status
\* of its own.
C10_StorageErrorNotSurfaced ==
    \A p \in Procs :
        (h[p].pc = "done" /\ h[p].err \in StorageErrors) =>
            IF cfg.DoNotSubmitAttacks THEN h[p].reply = MockupResponse
            ELSE /\ h[p].up # Nil
                 /\ h[p].reply = IF h[p].up.kind = "error"
                                 THEN HttpError(502, "Bad Gateway")
                                 ELSE CopyResponse(clientDo(h[p].req, h[p].up).resp)

C10_Witness ==
    \E p \in Procs :
        /\ h[p].pc = "done"
        /\ h[p].err = "check"
        /\ ~cfg.DoNotSubmitAttacks
        /\ h[p].up # Nil /\ h[p].up.kind = "response"
        /\ h[p].reply.status = 200

\* C11: with DoNotSubmitAttacks set, a POST /add_attack whose body could be
\* read causes no request to the upstream and is answered 200 with the mockup
\* body, and a valid non-test-mode attack in it, once a saveAttackToDB call on
\* it has returned (no storage failure injected), is in the datastore.
C11_SuppressedStillPersisted ==
    cfg.DoNotSubmitAttacks =>
        \A p \in Procs :
            (h[p].pc = "done" /\ ~h[p].readErr /\ IsSubmission(h[p].req)) =>
                /\ h[p].sent = Nil
                /\ h[p].reply = MockupResponse
                /\ (/\ h[p].attack # Nil
                    /\ ~h[p].attack.TestMode
                    /\ h[p].attack \in LoggedAttacks) => RowsFor(db, h[p].attack) >= 1

\* C12: a valid non-test-mode attack of a POST /add_attack is in the datastore
\* once a saveAttackToDB call on it has returned (no storage failure
\* injected), also when forwarding failed (502) or the upstream answered with
\* a status outside 200..299.
C12_PersistedWhateverUpstream ==
    \A p \in Procs :
        (/\ h[p].pc = "done"
         /\ h[p].up # Nil
         /\ (h[p].up.kind = "error" \/ h[p].up.status \notin 200..299)
         /\ h[p].attack # Nil
         /\ ~h[p].attack.TestMode
         /\ h[p].attack \in LoggedAttacks) => RowsFor(db, h[p].attack) >= 1

\* C13: for a request that was forwarded and answered by the upstream, the
\* request sent has the method, the header set and the body of the inbound
\* request, and the status, header and body written to the caller are those
\* of the upstream's response.
C13_ForwardedUnchanged ==
    \A p \in Procs :
        (h[p].pc = "done" /\ h[p].sent # Nil /\ h[p].up.kind = "response") =>
            /\ h[p].sent.method = h[p].req.method
            /\ h[p].sent.header = h[p].req.header
            /\ h[p].sent.body = h[p].req.body
            /\ h[p].reply = [status |-> h[p].up.status, header |-> h[p].up.header,
                             body |-> h[p].up.body]

\* C14: a step in which forwarding fails answers that request with 502 Bad
\* Gateway; the server keeps serving, and the step changes nothing of the
\* other handlers, the datastore, the lock or the open transaction.
C14_ForwardFailureIsolated ==
    [][\A p \in Procs :
          (/\ h[p].pc = "forward"
           /\ h'[p].pc = "done"
           /\ h'[p].up # Nil
           /\ h'[p].up.kind = "error") =>
              /\ h'[p].reply = HttpError(502, "Bad Gateway")
              /\ phase' = "serve"
              /\ \A q \in Procs \ {p} : h'[q] = h[q]
              /\ db' = db /\ dbMutex' = dbMutex /\ tx' = tx]_vars

\* a request answered 502 while the other handler, whose request came in
\* before or after, got the upstream's 200
C14_Witness ==
    \E p, q \in Procs :
        /\ p # q
        /\ h[p].pc = "done" /\ h[p].up # Nil /\ h[p].up.kind = "error"
        /\ h[p].reply.status = 502
        /\ h[q].pc = "done" /\ h[q].up # Nil /\ h[q].up.kind = "response"
        /\ h[q].reply.status = 200
        /\ phase = "serve"

\* the version of the last migration of the list
LatestVersion == migrations[Len(migrations)].Version

\* C15: in every step the stored content (what a reader of the file, or the
\* next start after a failure or a stop, sees) changes its version only
\* together with the whole effect of the script of the first migration above
\* the stored version, and while runMigrations is at work the content does not
\* change without the version.
C15_VersionAndScriptTogether ==
    [][/\ db'.user_version # db.user_version =>
              \E i \in 1..Len(migrations) :
                  LET version == migrations[i].Version
                      res == ExecMigration(version, db)
                  IN /\ db.user_version < version
                     /\ \A j \in 1..(i - 1) : migrations[j].Version <= db.user_version
                     /\ ~res.err
                     /\ db' = [res.db EXCEPT !.user_version = version]
       /\ (db'.user_version = db.user_version /\ phase \in {"boot", "migrate", "fatal"}) =>
              db' = db]_vars

\* a transaction that holds the changed content and the new version while
\* the file still holds the content of the last commit
C15_Witness ==
    /\ phase = "migrate"
    /\ mpc = "commit"
    /\ db.user_version >= 1
    /\ mtx.user_version = db.user_version + 1
    /\ [mtx EXCEPT !.user_version = db.user_version] # db

\* C16: a step in which runMigrations fails leaves the stored content as the
\* last commit left it, with no transaction open; once failed, the process
\* commits no migration and handles no request: it can only be started again.
C16_FailedMigrationAborts ==
    [][/\ (phase = "migrate" /\ phase' = "fatal") =>
              /\ db' = db
              /\ mtx' = Nil
              /\ applied' = applied
       /\ phase = "fatal" =>
              /\ phase' \in {"fatal", "boot"}
              /\ db' = db
              /\ applied' = applied
              /\ \A p \in Procs : h[p].pc = "idle" /\ h'[p].pc = "idle"]_vars

\* runMigrations has failed in this run after committing at least one
\* migration and changing content
C16_Witness ==
    /\ phase = "fatal"
    /\ migrated
    /\ db.user_version \in 2..(LatestVersion - 1)
    /\ Len(db.attacks) >= 1

\* C17: in every step the stored version does not decrease; it changes only
\* in a step that commits one migration, to the version of that migration,
\* which was above the stored one; no migration is committed twice.
C17_VersionMonotone ==
    [][/\ db'.user_version >= db.user_version
       /\ db'.user_version # db.user_version =>
              \E i \in 1..Len(migrations) : applied'[i] = applied[i] + 1
       /\ \A i \in 1..Len(migrations) :
              /\ applied'[i] <= 1
              /\ applied'[i] # applied[i] =>
                    /\ applied'[i] = applied[i] + 1
                    /\ db.user_version < migrations[i].Version
                    /\ db'.user_version = migrations[i].Version]_vars

C17_Witness ==
    /\ restarts >= 1
    /\ phase = "serve"
    /\ db.user_version = LatestVersion
    /\ \A i \in 1..Len(migrations) : applied[i] = 1

\* C18: a run of runMigrations that starts on a datastore at the latest
\* version opens no transaction, commits no migration and leaves version and
\* data as they are.
C18_SecondRunIsNoOp ==
    [][(/\ phase \in {"boot", "migrate"}
        /\ db.user_version = LatestVersion
        /\ ~migrated) =>
            /\ db' = db
            /\ applied' = applied
            /\ mtx' = Nil
            /\ migrated' = FALSE]_vars

\* a second run has returned on a datastore the first run had completed, with
\* fact rows in it
C18_Witness ==
    /\ restarts >= 1
    /\ phase = "ready"
    /\ ~migrated
    /\ currentVersion = LatestVersion
    /\ Len(db._attacks) >= 1
    /\ db.user_version = LatestVersion

\* the steps runMigrations has at most left in its loop
StepsLeft ==
    4 * (Len(migrations) + 1 - mi)
    - (CASE mpc = "loop" -> 0 [] mpc = "exec" -> 1 [] mpc = "pragma" -> 2 [] mpc = "commit" -> 3)

\* what holds while runMigrations is in its loop: currentVersion is the
\* version the file stores, a transaction is open only for a migration above
\* it, and the loop is at a position from which it has a next step
InLoop ==
    /\ currentVersion = db.user_version
    /\ mtx # Nil => migrations[mi].Version > db.user_version
    /\ StepsLeft >= 0
    /\ \/ mpc = "loop" /\ mtx = Nil /\ mi \in 1..(Len(migrations) + 1)
       \/ mpc \in {"exec", "pragma", "commit"} /\ mtx # Nil /\ mi \in 1..Len(migrations)

\* what holds when runMigrations has returned nil
Returned ==
    /\ db.user_version = LatestVersion
    /\ \A i \in 1..Len(migrations) : applied[i] = 1

\* C19: every step leads runMigrations, while in its loop, to a state where its
\* currentVersion is the stored version (read from the file by the new run
\* after a stop), only migrations above it are run, and a next step is
\* possible; every step within the loop brings it nearer to the loop's end;
\* and when it has returned, the stored version is the latest and every
\* migration has been committed exactly once overall.
C19_ResumeFromStoredVersion ==
    [][/\ phase' = "migrate" => InLoop'
       /\ phase' \in {"vacuum", "ready", "serve"} => Returned'
       /\ (phase = "migrate" /\ phase' = "migrate") => StepsLeft' < StepsLeft]_vars

\* the process stopped with a migration's transaction open, was started
\* again, and runMigrations has returned after applying the rest
C19_Witness ==
    /\ stoppedInTx
    /\ phase = "ready"
    /\ migrated
    /\ currentVersion = LatestVersion
    /\ \A i \in 1..Len(migrations) : applied[i] = 1

\* C20: a request is being handled, the lock is held or a submission's
\* transaction is open only in the serving phase, which is entered only with
\* the stored version at the latest and no migration's transaction open.
C20_ServeOnlyAfterMigrations ==
    /\ ((\E p \in Procs : h[p].pc # "idle") \/ dbMutex # "free" \/ tx # "none") =>
          phase = "serve"
    /\ phase = "serve" => (db.user_version = LatestVersion /\ mtx = Nil)

\* a submission in its transaction, in the run that applied the migrations
C20_Witness ==
    /\ phase = "serve"
    /\ restarts = 0
    /\ \A i \in 1..Len(migrations) : applied[i] = 1
    /\ \E p \in Procs : h[p].pc = "tx"

\* the seven data columns of a row of the flat table
FlatData(r) ==
    <<r.attack_timestamp, r.source_ip, r.destination_ip, r.username, r.password,
      r.attack_type, r.evidence>>

\* the seven data columns of a row of the attacks view
ViewData(r) ==
    <<r.timestamp, r.source_ip, r.destination_ip, r.username, r.password,
      r.attack_type, r.evidence>>

\* how often a sequence holds a value
Count(seq, v) == Cardinality({i \in 1..Len(seq) : seq[i] = v})

C22_TimestampParsedAndStored ==
    \A p \in Procs :
        (/\ h[p].pc \in {"forward", "done"}
         /\ ~h[p].readErr
         /\ IsSubmission(h[p].req)
         /\ h[p].req.body.json = "ok") =>
            LET ts == h[p].req.body.ts
            IN /\ ts.layout = "rfc3339" =>
                     (h[p].decoded = "ok" /\ h[p].attack.AttackTimestamp = ts.wall - ts.offset)
               /\ ts.layout = "naive" =>
                     (h[p].decoded = "ok" /\ h[p].attack.AttackTimestamp = ts.wall - Local.offset)
               /\ ts.layout = "garbage" =>
                     (h[p].decoded = "error" /\ h[p].attack = Nil /\ phase = "serve")
               /\ (/\ h[p].decoded = "ok"
                   /\ ~h[p].attack.TestMode
                   /\ h[p].attack \in LoggedAttacks) =>
                     \E i \in 1..Len(AttacksView(db)) :
                         /\ AttacksView(db)[i].timestamp = h[p].attack.AttackTimestamp
                         /\ AttacksView(db)[i].source_ip = h[p].attack.SourceIP

\* the handlers between dbMutex.Lock() and the return of saveAttackToDB
InCriticalSection == {p \in Procs : h[p].pc \in {"begin", "tx"}}

\* C23: at most one handler is between the lock and the return of
\* saveAttackToDB, and it holds dbMutex; a transaction is open only for the
\* handler that holds the lock, which runs the duplicate check, the insert
\* and the commit or rollback in it; the lock is held by no one else.
C23_OneTransactionAtATime ==
    /\ Cardinality(InCriticalSection) <= 1
    /\ \A p \in InCriticalSection : dbMutex = p
    /\ dbMutex # "free" => dbMutex \in InCriticalSection
    /\ tx # "none" => (dbMutex = tx /\ h[tx].pc = "tx")
    /\ \A p \in Procs : h[p].pc = "tx" => tx = p

\* one handler is in its transaction while the other waits for the lock with
\* the same attack
C23_Witness ==
    \E p, q \in Procs :
        /\ h[p].pc = "tx" /\ tx = p /\ dbMutex = p
        /\ h[q].pc = "save" /\ ~SkipSave(h[q].attack)
        /\ h[q].attack = h[p].attack

\* C24: a saveAttackToDB call (no storage failure injected) on an attack whose
\* evidence has surrounding white space and which, with the evidence trimmed,
\* is stored already, ends as duplicate, and the attack has one fact row.
C24_CheckAndInsertSameKey ==
    \A i \in 1..Len(saveLog) :
        LET e == saveLog[i]
        IN (e.stored /\ e.attack.Evidence # TrimSpace(e.attack.Evidence)) =>
              /\ e.err = "duplicate"
              /\ RowsFor(db, e.attack) = 1

\* C25: a step in which a saveAttackToDB call returns (no storage failure
\* injected) on an attack that has a fact row with its seven values, as
\* submitted, returns the duplicate outcome, which is none of the storage
\* errors, and leaves the fact table and the dictionary tables as they are.
C25_DuplicateLeavesTablesUnchanged ==
    [][\A p \in Procs :
          (/\ h[p].pc = "tx"
           /\ h'[p].pc # "tx"
           /\ saveLog' # saveLog
           /\ h[p].attack.Evidence = TrimSpace(h[p].attack.Evidence)
           /\ RowsFor(db, h[p].attack) > 0) =>
              /\ h'[p].err = "duplicate"
              /\ h'[p].err \notin StorageErrors
              /\ db'._attacks = db._attacks
              /\ db'.dict = db.dict]_vars

\* C26: a step in which a saveAttackToDB call returns a storage error leaves
\* the datastore as it was before the call, with no transaction open and the
\* lock released; the datastore did not change while the call held the lock.
C26_StorageErrorRollsBack ==
    [][\A p \in Procs :
          /\ (h[p].pc \in {"begin", "tx"} /\ h'[p].err \in StorageErrors) =>
                (db' = db /\ tx' = "none" /\ dbMutex' = "free")
          /\ (h[p].pc \in {"begin", "tx"} /\ h'[p].pc \in {"begin", "tx"}) => db' = db]_vars

\* a call has failed at the duplicate check on an attack one of whose values
\* is in no dictionary, on a datastore that holds fact rows
C26_Witness ==
    \E p \in Procs :
        /\ h[p].pc = "forward"
        /\ h[p].err = "check"
        /\ \E c \in CatColSet : LookupId(db.dict[c], InsertArgs(h[p].attack)[c]) = NULL
        /\ Len(db._attacks) >= 1

\* C27: a step of a handler whose request is not POST /add_attack, both
\* compared exactly, leaves the datastore unchanged, and the handler neither
\* decodes its body nor enters saveAttackToDB; so does every step in which no
\* handler with a POST /add_attack request takes part.
C27_OnlySubmissionsTouchDatastore ==
    [][/\ \A p \in Procs :
             (/\ h'[p] # h[p]
              /\ h'[p].req # Nil
              /\ ~(h'[p].req.method = "POST" /\ h'[p].req.path = "/add_attack")) =>
                 /\ db' = db
                 /\ h'[p].pc \in {"forward", "done"}
                 /\ h'[p].decoded = "none"
                 /\ h'[p].attack = Nil
       /\ (phase = "serve" /\ db' # db) =>
             \E p \in Procs :
                 /\ h'[p] # h[p]
                 /\ h[p].req # Nil
                 /\ h[p].req.method = "POST" /\ h[p].req.path = "/add_attack"]_vars

\* GET /add_attack and POST /Add_Attack, each with the body of an attack,
\* have been handled and forwarded on a datastore with fact rows
C27_Witness ==
    \E p, q \in Procs :
        /\ h[p].pc = "done" /\ h[q].pc = "done"
        /\ h[p].req.method = "GET" /\ h[p].req.path = EndpointAddAttack
        /\ h[p].req.body.json = "ok"
        /\ h[q].req.method = "POST" /\ h[q].req.path = "/Add_Attack"
        /\ h[p].sent # Nil /\ h[q].sent # Nil
        /\ Len(db._attacks) >= 1

\* the first migration of the list above a version, Len(migrations) + 1 if
\* there is none
FirstAbove(version) ==
    IF \E i \in 1..Len(migrations) : migrations[i].Version > version
    THEN CHOOSE i \in 1..Len(migrations) :
            /\ migrations[i].Version > version
            /\ \A j \in 1..(i - 1) : migrations[j].Version <= version
    ELSE Len(migrations) + 1

RowSet(tbl) == {tbl[i] : i \in 1..Len(tbl)}

\* C29: once the migrations are complete, every step (of a handler, and of a
\* later start) keeps every fact row and every dictionary entry as it is: the
\* sets of rows of _attacks and of each dictionary table only grow.
C29_RowsOnlyAdded ==
    [][db.user_version = LatestVersion =>
          /\ RowSet(db._attacks) \subseteq RowSet(db'._attacks)
          /\ \A c \in CatColSet : RowSet(db.dict[c]) \subseteq RowSet(db'.dict[c])]_vars

\* two saveAttackToDB calls have returned on a datastore with fact rows and
\* dictionary entries, the first for an attack that was stored already
C29_Witness ==
    /\ phase = "serve"
    /\ Len(saveLog) = 2
    /\ saveLog[1].stored
    /\ Len(db._attacks) >= 2
    /\ Len(db.dict["evidence"]) >= 2

\* C30: once the migrations are complete, each column of each fact row holds the
\* id of exactly one entry of its dictionary table, and the attacks view has
\* one row per fact row, in the same order, with the fact row's id and
\* timestamp and the values of the entries the row references.
C30_ViewMatchesFactRows ==
    db.user_version = LatestVersion =>
        LET view == AttacksView(db)
            entries(c, id) == {j \in 1..Len(db.dict[c]) : db.dict[c][j].id = id}
        IN /\ \A i \in 1..Len(db._attacks) : \A c \in CatColSet :
                  Cardinality(entries(c, db._attacks[i][c])) = 1
           /\ Len(view) = Len(db._attacks)
           /\ \A i \in 1..Len(view) :
                  /\ view[i].id = db._attacks[i].id
                  /\ view[i].timestamp = db._attacks[i].timestamp
                  /\ \A c \in CatColSet :
                         \E j \in entries(c, db._attacks[i][c]) :
                             db.dict[c][j].value = view[i][c]

\* requests have been handled, in a second run, on a datastore with two fact
\* rows that share all dictionary entries but that of the evidence
C30_Witness ==
    /\ phase = "serve"
    /\ restarts >= 1
    /\ handled >= 1
    /\ Len(db._attacks) = 2
    /\ Len(db.dict["evidence"]) = 2
    /\ Len(db.dict["source_ip"]) = 1

C32_VacuumOnceIffMigrated ==
    [][/\ vacuums' # vacuums =>
              \/ (vacuums' = 0 /\ phase' \in {"boot", "serve"})
              \/ /\ vacuums = 0 /\ vacuums' = 1
                 /\ migrated
                 /\ mi > Len(migrations) /\ mtx = Nil
                 /\ db.user_version = LatestVersion
       /\ phase' = "ready" => vacuums' = (IF migrated' THEN 1 ELSE 0)
       /\ phase' \in {"boot", "migrate", "vacuum"} => vacuums' = 0]_vars

\* a second run, started on a file the first run had left at a version below
\* the latest, has committed the rest and returned after its one VACUUM
C32_Witness ==
    /\ restarts >= 1
    /\ phase = "ready"
    /\ migrated
    /\ vacuums = 1
    /\ db.user_version = LatestVersion

\* the handler's request is a POST /add_attack whose attack_timestamp is null
NullTimestamp(p) ==
    /\ h[p].req # Nil
    /\ h[p].req.method = "POST"
    /\ h[p].req.path = EndpointAddAttack
    /\ h[p].req.body.json = "ok"
    /\ h[p].req.body.ts.layout = "null"

\* C33: a submission whose attack_timestamp is null, once its body is read,
\* is decoded without error into an attack with the zero time as its
\* timestamp; the handler calls saveAttackToDB with it, which takes the lock
\* and opens its transaction as for any attack that is not in test mode, and
\* the request is forwarded only when that call has returned its result.
C33_NullTimestampDecodes ==
    \A p \in Procs :
        (NullTimestamp(p) /\ ~h[p].readErr) =>
            /\ h[p].decoded = "ok"
            /\ h[p].attack # Nil
            /\ h[p].attack.AttackTimestamp = ZeroTimeUnixMilli
            /\ h[p].attack.SourceIP = h[p].req.body.source_ip
            /\ h[p].attack.Evidence = h[p].req.body.evidence
            /\ h[p].pc \in {"save", "begin", "tx", "forward", "done"}
            /\ ~SkipSave(h[p].attack)
            /\ h[p].pc \in {"forward", "done"} =>
                  h[p].err \in StorageErrors \cup {"duplicate", "nil"}

\* a submission with a null timestamp has been through the duplicate check
\* and was answered
C33_Witness ==
    \E p \in Procs :
        /\ NullTimestamp(p)
        /\ h[p].pc = "done"
        /\ h[p].decoded = "ok"
        /\ h[p].attack.AttackTimestamp = ZeroTimeUnixMilli
        /\ \E i \in 1..Len(saveLog) : saveLog[i].attack = h[p].attack

\* the handler is inside saveAttackToDB
InSave(p) == h[p].pc \in {"save", "begin", "tx"}

\* C34: the mutex is held, and a submission's transaction is open, only by a
\* handler that is inside saveAttackToDB past its Lock (its Begin); every step
\* in which a handler returns from saveAttackToDB leaves the mutex and the
\* transaction with no one if that handler had them; and every handler that
\* is inside saveAttackToDB leaves it (it returns, or the process stops).
C34_EveryPathReleases ==
    /\ [][\A p \in Procs :
             /\ dbMutex' = p => h'[p].pc \in {"begin", "tx"}
             /\ tx' = p => (h'[p].pc = "tx" /\ dbMutex' = p)
             /\ (InSave(p) /\ ~InSave(p)') =>
                    /\ dbMutex' # p
                    /\ tx' # p
                    /\ dbMutex = p => dbMutex' = "free"
                    /\ tx = p => tx' = "none"]_vars
    /\ \A p \in Procs : InSave(p) ~> ~InSave(p)

\* a submission has returned from saveAttackToDB after its duplicate check,
\* and the submission that waited for the mutex meanwhile has its transaction
C34_Witness ==
    \E p, q \in Procs :
        /\ h[p].pc \in {"forward", "done"}
        /\ h[p].err = "check"
        /\ h[q].pc = "tx"
        /\ dbMutex = q
        /\ tx = q

\* C35: on every datastore at version 4 that carries the unique index of
\* migration 2, holding what earlier releases stored, the script of migration
\* 5 runs without error and leaves the rows of the flat table distinct on the
\* seven indexed columns.
C35_TrimKeepsRowsDistinct ==
    (db.user_version = 4 /\ db.uniq) =>
        LET res == Migration5(db)
        IN /\ ~res.err
           /\ UniqueIndexOK(Keys(res.db.attacks, FlatKey))

\* C36: every handler that has returned has written a status to the sensor:
\* 500 if the body could not be read, 502 if forwarding failed, the status
\* of the mockup response if the request was answered with it, and the
\* upstream's status otherwise.
C36_ExactlyOneStatus ==
    \A p \in Procs :
        h[p].pc = "done" =>
            /\ h[p].reply # Nil
            /\ h[p].reply.status # NoResponse.status
            /\ h[p].readErr => h[p].reply.status = 500
            /\ (~h[p].readErr /\ h[p].up = Nil) =>
                  (ReturnMockup(cfg, h[p].req) /\ h[p].reply.status = MockupResponse.status)
            /\ (h[p].up # Nil /\ h[p].up.kind = "error") => h[p].reply.status = 502
            /\ (h[p].up # Nil /\ h[p].up.kind = "response") =>
                  h[p].reply.status = h[p].up.status

====
